---- MODULE Spec2Model ----
(***************************************************************************)
(* School observation wizard (streamlit_app.py).                           *)
(*                                                                         *)
(* The program is a Streamlit script: every user interaction runs the      *)
(* script once from the top with st.session_state kept from the previous   *)
(* run.  One run dispatches on st.session_state.page (the "Main App Flow") *)
(* and renders exactly one section; the widgets of that section return     *)
(* their current values and at most one st.button returns True.  A step of *)
(* the model is one script run: the section is the action, the widget      *)
(* values and the pressed button are its inputs, the outcome of each       *)
(* remote call (Google Sheets / Drive) is an input as well.                *)
(*                                                                         *)
(* The Google Sheets workbooks named "School_Observations" are the         *)
(* variable workbooks (the worksheets of each and the first row of each    *)
(* worksheet); the data rows of the three worksheets are Schools, Teachers *)
(* and Observations.  calls holds the add_new_teacher calls that the       *)
(* script runs of concurrent browser sessions have in progress.            *)
(*                                                                         *)
(* Python values: a dict is a sequence of <<key, value>> pairs in          *)
(* insertion order, values that reach json.dumps are tagged                *)
(* ([t |-> "str" | "list" | "dict", v |-> ...]).                           *)
(***************************************************************************)
EXTENDS Integers, Sequences, FiniteSets, TLC

VARIABLES session_state, Schools, Teachers, Observations, run, workbooks, calls

vars == <<session_state, Schools, Teachers, Observations, run, workbooks, calls>>

----------------------------------------------------------------------------
(* Bounds of the model *)

\* rows appended to the Observations worksheet after which the run of the
\* model ends
MaxRows == 1

\* how many of its options (the first ones) a selectbox of the Infrastructure
\* and Community forms may take
MaxChoices == 2

\* rows of the Teachers worksheet at which no further add_new_teacher call
\* is started
MaxTeachers == 4

\* workbooks named "School_Observations" at which no further
\* get_or_create_sheet call is started
MaxWorkbooks == 2

----------------------------------------------------------------------------
(* Python / JSON values *)

JStr(s) == [t |-> "str", v |-> s]
JList(q) == [t |-> "list", v |-> q]
JDict(pairs) == [t |-> "dict", v |-> pairs]

EmptyDict == JDict(<<>>)

\* d[k] = val on a dict: an existing key keeps its position, a new one is appended
DictSet(d, k, val) ==
    IF \E i \in 1..Len(d.v) : d.v[i][1] = k
    THEN JDict([i \in 1..Len(d.v) |-> IF d.v[i][1] = k THEN <<k, val>> ELSE d.v[i]])
    ELSE JDict(Append(d.v, <<k, val>>))

DictKeys(d) == [i \in 1..Len(d.v) |-> d.v[i][1]]

DictGet(d, k) == d.v[CHOOSE i \in 1..Len(d.v) : d.v[i][1] = k][2]

RECURSIVE JsonDumps(_)
RECURSIVE JsonJoin(_, _)

\* the items of a list or dict, joined by ", " (json.dumps default separators)
JsonJoin(q, isDict) ==
    IF q = <<>> THEN ""
    ELSE LET one == IF isDict
                    THEN "\"" \o Head(q)[1] \o "\": " \o JsonDumps(Head(q)[2])
                    ELSE JsonDumps(Head(q))
         IN  IF Len(q) = 1 THEN one ELSE one \o ", " \o JsonJoin(Tail(q), isDict)

\* json.dumps on a tagged value
JsonDumps(x) ==
    CASE x.t = "str"  -> "\"" \o x.v \o "\""
      [] x.t = "list" -> "[" \o JsonJoin(x.v, FALSE) \o "]"
      [] x.t = "dict" -> "{" \o JsonJoin(x.v, TRUE) \o "}"

----------------------------------------------------------------------------
(* st.session_state: a mapping from the keys present to their values *)

Put(ss, k, val) == [x \in (DOMAIN ss) \cup {k} |-> IF x = k THEN val ELSE ss[x]]

Has(ss, k) == k \in DOMAIN ss

\* session_state.get-like read used by submit_form: ss[k] if present else {}
GetOrEmpty(ss, k) == IF Has(ss, k) THEN ss[k] ELSE EmptyDict

Entities == {"basic_details", "teacher_details", "observations",
             "media", "infrastructure", "community"}

----------------------------------------------------------------------------
(* The record store: the rows of the worksheets (the header row left out) *)

\* the Schools worksheet, which the program only reads; Lakeside has an
\* empty Program Manager cell
SchoolsInit == << [school |-> "Greenfield", pm |-> "Asha"],
                  [school |-> "Lakeside",   pm |-> ""] >>

TeachersInit == << [school |-> "Greenfield", name |-> "R. Singh", trained |-> TRUE],
                   [school |-> "Greenfield", name |-> "M. Rao",   trained |-> FALSE] >>

\* a row an earlier Daily visit to Greenfield left in the Observations
\* worksheet: R. Singh observed, one photo uploaded
EarlierRow ==
    [timestamp       |-> "2024-05-01 09:00:00",
     pm_name         |-> "Asha",
     school_name     |-> "Greenfield",
     visit_date      |-> "2024-05-01",
     visit_type      |-> "Daily",
     teacher_details |-> "{\"trained_teachers\": [\"R. Singh\"], \"untrained_teachers\": []}",
     observations    |-> "{\"R. Singh\": {\"teacher_metrics\": {\"lesson_plan\": \"Yes\", "
                         \o "\"movement\": \"Yes\", \"activities\": \"Yes\"}, "
                         \o "\"student_metrics\": {\"questions\": \"Yes\", "
                         \o "\"explanation\": \"Yes\", \"involvement\": \"Yes\"}}}",
     infrastructure  |-> "{}",
     community       |-> "{}",
     media           |-> "{\"R. Singh\": [{\"type\": \"photo\", \"name\": \"a.jpg\", "
                         \o "\"file_id\": \"id-a.jpg\"}]}"]

ObservationsInit == <<EarlierRow>>

\* the worksheets the program asks for
SheetNames == {"Schools", "Teachers", "Observations"}

\* a header row that does not depend on the worksheet
headers_of_schools(sheet_name) ==
    <<"School Name", "Program Manager", "Added Date">>

\* the header row get_or_create_sheet gives a worksheet it creates
headers(sheet_name) ==
    CASE sheet_name = "Observations" ->
            <<"Timestamp", "PM Name", "School Name", "Visit Date", "Visit Type",
              "Teacher Details", "Observations", "Infrastructure Data", "Community Data",
              "Media">>
      [] sheet_name = "Schools" -> <<"School Name", "Program Manager", "Added Date">>
      [] sheet_name = "Teachers" ->
            <<"School Name", "Teacher Name", "Is Trained", "Added Date">>

\* a workbook: its worksheets and the first row of each (<<>>: no row yet)
FullWorkbook == [n \in SheetNames |-> headers(n)]

\* the workbook client.create returns
NewWorkbook == [n \in {"Sheet1"} |-> <<>>]

WorkbooksInit == <<FullWorkbook>>

\* a remote call of a get_or_create_sheet run: whether the store answered
\* it (no transport or API failure) and whether it returned (it raises as
\* well when the store answers that the thing is absent, or present)
Call(name, ok, answered) == [call |-> name, ok |-> ok, answered |-> answered]

\* the end of a get_or_create_sheet run: the workbooks it leaves, the
\* worksheet it returns (<<>> for None, else <<workbook, name>>), whether an
\* exception left the function, and the remote calls it made
Ended(wbs, sheet, raised, trace) ==
    [workbooks |-> wbs, sheet |-> sheet, raised |-> raised, trace |-> trace]

None == <<>>

\* get_or_create_sheet of streamlit_app.py.  out says which remote calls
\* answer (FALSE: the call raises whatever the state of the store) and which
\* of the workbooks of that title client.open returns; open also raises
\* when there is no workbook, worksheet when the workbook has no such
\* worksheet, add_worksheet when it has one already
get_or_create_sheet(wbs, sheet_name, out) ==
    LET w1 == out.pick1
        opened1 == out.open1 /\ wbs # <<>>
        found == opened1 /\ out.worksheet /\ sheet_name \in DOMAIN wbs[w1]
        try1 == IF opened1
                THEN <<Call("open", TRUE, TRUE), Call("worksheet", found, out.worksheet)>>
                ELSE <<Call("open", FALSE, out.open1)>>
        opened2 == out.open2 /\ wbs # <<>>
        created == ~opened2 /\ out.create
        shared == created /\ out.share
        wbs1 == IF created THEN Append(wbs, NewWorkbook) ELSE wbs
        w == IF opened2 THEN out.pick2 ELSE Len(wbs1)
        try2 == try1 \o <<Call("open", opened2, out.open2)>>
                     \o (IF opened2 THEN <<>> ELSE <<Call("create", created, out.create)>>)
                     \o (IF created THEN <<Call("share", shared, out.share)>> ELSE <<>>)
        added == (opened2 \/ shared) /\ out.add_worksheet /\ sheet_name \notin DOMAIN wbs1[w]
        wbs2 == IF added THEN [wbs1 EXCEPT ![w] = Put(wbs1[w], sheet_name, <<>>)] ELSE wbs1
        try3 == try2 \o <<Call("add_worksheet", added, out.add_worksheet)>>
        inserted == added /\ out.insert_row
        wbs3 == IF inserted
                THEN [wbs2 EXCEPT ![w] = Put(wbs2[w], sheet_name, headers(sheet_name))]
                ELSE wbs2
        try4 == try3 \o <<Call("insert_row", inserted, out.insert_row)>>
    IN  IF ~out.client THEN Ended(wbs, None, FALSE, <<>>)
        ELSE IF found THEN Ended(wbs, <<w1, sheet_name>>, FALSE, try1)
        ELSE IF ~opened2 /\ ~shared THEN Ended(wbs1, None, FALSE, try2)
        ELSE IF ~added THEN Ended(wbs1, None, FALSE, try3)
        ELSE IF ~inserted THEN Ended(wbs2, None, FALSE, try4)
        ELSE Ended(wbs3, <<w, sheet_name>>, FALSE, try4)

\* the header rows of utility.py
utility_headers(sheet_name) ==
    CASE sheet_name = "Observations" ->
            <<"Timestamp", "PM Name", "School Name", "Visit Date", "Visit Type",
              "Teacher Details", "Observations", "Infrastructure Data", "Community Data",
              "Media Links">>
      [] sheet_name = "Schools" -> <<"School Name", "Program Manager", "Added Date">>
      [] sheet_name = "Teachers" ->
            <<"School Name", "Teacher Name", "Is Trained", "Added Date">>

\* get_or_create_sheet of utility.py: only the two lookups and the second
\* open are inside a try; create, share, add_worksheet and insert_row are not
utility_get_or_create_sheet(wbs, sheet_name, out) ==
    LET w1 == out.pick1
        opened1 == out.open1 /\ wbs # <<>>
        found == opened1 /\ out.worksheet /\ sheet_name \in DOMAIN wbs[w1]
        try1 == IF opened1
                THEN <<Call("open", TRUE, TRUE), Call("worksheet", found, out.worksheet)>>
                ELSE <<Call("open", FALSE, out.open1)>>
        opened2 == out.open2 /\ wbs # <<>>
        created == ~opened2 /\ out.create
        shared == created /\ out.share
        wbs1 == IF created THEN Append(wbs, NewWorkbook) ELSE wbs
        w == IF opened2 THEN out.pick2 ELSE Len(wbs1)
        try2 == try1 \o <<Call("open", opened2, out.open2)>>
                     \o (IF opened2 THEN <<>> ELSE <<Call("create", created, out.create)>>)
                     \o (IF created THEN <<Call("share", shared, out.share)>> ELSE <<>>)
        added == (opened2 \/ shared) /\ out.add_worksheet /\ sheet_name \notin DOMAIN wbs1[w]
        wbs2 == IF added THEN [wbs1 EXCEPT ![w] = Put(wbs1[w], sheet_name, <<>>)] ELSE wbs1
        try3 == try2 \o <<Call("add_worksheet", added, out.add_worksheet)>>
        inserted == added /\ out.insert_row
        wbs3 == IF inserted
                THEN [wbs2 EXCEPT ![w] = Put(wbs2[w], sheet_name, utility_headers(sheet_name))]
                ELSE wbs2
        try4 == try3 \o <<Call("insert_row", inserted, out.insert_row)>>
    IN  IF found THEN Ended(wbs, <<w1, sheet_name>>, FALSE, try1)
        ELSE IF ~opened2 /\ ~shared THEN Ended(wbs1, None, TRUE, try2)
        ELSE IF ~added THEN Ended(wbs1, None, TRUE, try3)
        ELSE IF ~inserted THEN Ended(wbs2, None, TRUE, try4)
        ELSE Ended(wbs3, <<w, sheet_name>>, FALSE, try4)

\* no add_new_teacher call in progress in either browser session
Sessions == {1, 2}

Idle == [pc |-> "idle"]

CallsInit == [s \in Sessions |-> Idle]

\* str.lower() on the strings of the model
Lower(s) ==
    CASE s = "Asha"     -> "asha"
      [] s = "R. Singh" -> "r. singh"
      [] s = "M. Rao"   -> "m. rao"
      [] s = "r. singh" -> "r. singh"
      [] s = "N. Roy"   -> "n. roy"
      [] s = "K. Das"   -> "k. das"
      [] OTHER          -> s

\* position of a string in sorted() order
Rank(s) ==
    CASE s = ""     -> 0
      [] s = "Asha" -> 1
      [] OTHER      -> 3

Range(q) == {q[i] : i \in 1..Len(q)}

\* sorted(list(set(...))) over the names of the model
SortedSeq(S) ==
    CHOOSE q \in [1..Cardinality(S) -> S] :
        /\ Range(q) = S
        /\ \A i, j \in 1..Cardinality(S) : i < j => Rank(q[i]) < Rank(q[j])

\* get_program_managers: [] when the sheet or the read fails
get_program_managers(rows, ok) ==
    IF ~ok THEN <<>>
    ELSE SortedSeq({rows[i].pm : i \in 1..Len(rows)})

\* a lookup that answers from the rows although the read failed
get_pm_schools_unguarded(rows, pm_name, ok) ==
    LET Mine(r) == Lower(r.pm) = Lower(pm_name)
        mine == SelectSeq(rows, Mine)
    IN  [i \in 1..Len(mine) |-> mine[i].school]

\* get_pm_schools: the schools whose Program Manager equals pm_name ignoring case
get_pm_schools(rows, pm_name, ok) ==
    IF ~ok THEN <<>>
    ELSE LET Mine(r) == Lower(r.pm) = Lower(pm_name)
             mine == SelectSeq(rows, Mine)
         IN  [i \in 1..Len(mine) |-> mine[i].school]

\* the lookup without the test of the School Name
get_school_teachers_unfiltered(rows, school_name, ok) ==
    IF ~ok THEN [trained |-> <<>>, untrained |-> <<>>]
    ELSE LET Tr(r) == r.trained
             Un(r) == ~r.trained
             tr == SelectSeq(rows, Tr)
             un == SelectSeq(rows, Un)
         IN  [trained   |-> [i \in 1..Len(tr) |-> tr[i].name],
              untrained |-> [i \in 1..Len(un) |-> un[i].name]]

\* get_school_teachers: the names of the school's rows, split by Is Trained
get_school_teachers(rows, school_name, ok) ==
    IF ~ok THEN [trained |-> <<>>, untrained |-> <<>>]
    ELSE LET Tr(r) == r.school = school_name /\ r.trained
             Un(r) == r.school = school_name /\ ~r.trained
             tr == SelectSeq(rows, Tr)
             un == SelectSeq(rows, Un)
         IN  [trained   |-> [i \in 1..Len(tr) |-> tr[i].name],
              untrained |-> [i \in 1..Len(un) |-> un[i].name]]

----------------------------------------------------------------------------
(* Widgets *)

VisitTypes == <<"Daily", "Monthly">>

\* st.date_input values
Dates == { [y |-> 2024, m |-> 5, d |-> 1] }

Pad2(n) == IF n < 10 THEN "0" \o ToString(n) ELSE ToString(n)

\* date.strftime("%Y-%m-%d")
strftime(date) == ToString(date.y) \o "-" \o Pad2(date.m) \o "-" \o Pad2(date.d)

\* datetime.now().strftime("%Y-%m-%d %H:%M:%S") at the time of a write
Timestamps == {"2024-05-01 10:00:00"}

\* the first MaxChoices options of a selectbox
Choices(options) ==
    {options[i] : i \in 1..(IF MaxChoices < Len(options) THEN MaxChoices ELSE Len(options))}

\* st.multiselect: the chosen options, each at most once, in the order chosen
Selections(options) ==
    {q \in UNION {[1..n -> Range(options)] : n \in 0..Len(options)} :
        \A i, j \in 1..Len(q) : i # j => q[i] # q[j]}

\* the value of school_name when the School Name selectbox was not rendered
Unbound == "<unbound>"

NoProgramManagers == "No program managers found"
NoSchools == "No schools found"

\* the run of the model ends with the MaxRows-th appended row
Running == Len(Observations) < Len(ObservationsInit) + MaxRows

\* no mapping at all
NoSession == <<>>

\* what the last script run was: the section rendered, the button that
\* returned True, the branch the run took, the widget values the button
\* handler read and the session submit_form was called with (if it was)
RanWith(section, button, outcome, input, submitted) ==
    [section |-> section, button |-> button, outcome |-> outcome,
     input |-> input, submitted |-> submitted]

Ran(section, button, outcome) == RanWith(section, button, outcome, <<>>, NoSession)

----------------------------------------------------------------------------
(* BasicDetails *)

\* the test without the check of the school placeholder
basic_details_valid_pm_only(pm_name, school_name) ==
    pm_name # ""

\* the test guarding the advance of basic_details_section
basic_details_valid(pm_name, school_name) ==
    pm_name # "" /\ school_name # NoSchools

\* a "Next" that drops what was collected under the former basic_details
basic_details_next_resets(ss, pm_name, school_name, visit_date, visit_type) ==
    IF basic_details_valid(pm_name, school_name)
    THEN Put(Put([k \in {"visit_type"} |-> ss[k]], "basic_details",
                 [pm_name |-> pm_name, school_name |-> school_name,
                  visit_date |-> strftime(visit_date), visit_type |-> visit_type]),
             "page", 2)
    ELSE ss

\* the "Next" handler of basic_details_section
basic_details_next(ss, pm_name, school_name, visit_date, visit_type) ==
    IF basic_details_valid(pm_name, school_name)
    THEN Put(Put(ss, "basic_details",
                 [pm_name |-> pm_name, school_name |-> school_name,
                  visit_date |-> strftime(visit_date), visit_type |-> visit_type]),
             "page", 2)
    ELSE ss

\* the render without the copy of the visit type to the session
basic_details_run_uncopied(ss, pm_name, school_name, visit_date, visit_type, button) ==
    IF button = "next"
    THEN basic_details_next(ss, pm_name, school_name, visit_date, visit_type)
    ELSE ss

\* one render of basic_details_section: the visit type selectbox is copied to
\* the session on every render, then the button is handled
basic_details_run(ss, pm_name, school_name, visit_date, visit_type, button) ==
    LET shown == Put(ss, "visit_type", visit_type)
    IN  IF button = "next"
        THEN basic_details_next(shown, pm_name, school_name, visit_date, visit_type)
        ELSE shown

basic_details_section ==
    /\ Running
    /\ session_state.page = 1
    /\ \E pmOk, schoolsOk \in BOOLEAN, visit_date \in Dates,
          visit_type \in Range(VisitTypes), button \in {"none", "next"} :
          LET program_managers == get_program_managers(Schools, pmOk)
              pmOptions == IF program_managers # <<>> THEN program_managers
                           ELSE <<NoProgramManagers>>
          IN  \E pm_name \in Range(pmOptions) :
                LET schools == get_pm_schools(Schools, pm_name, schoolsOk)
                    schoolOptions == IF pm_name = "" THEN <<Unbound>>
                                     ELSE IF schools # <<>> THEN schools
                                     ELSE <<NoSchools>>
                IN  \E school_name \in Range(schoolOptions) :
                      /\ session_state' = basic_details_run(session_state, pm_name,
                                              school_name, visit_date, visit_type, button)
                      /\ run' = IF button = "none" THEN Ran(1, button, "rendered")
                                 ELSE RanWith(1, button,
                                              IF basic_details_valid(pm_name, school_name)
                                              THEN "advanced" ELSE "invalid",
                                              [pm_name |-> pm_name, school_name |-> school_name,
                                               visit_date |-> visit_date,
                                               visit_type |-> visit_type,
                                               pmOk |-> pmOk, schoolsOk |-> schoolsOk],
                                              NoSession)
    /\ UNCHANGED <<Schools, Teachers, Observations, workbooks, calls>>

----------------------------------------------------------------------------
(* TeacherSelection *)

\* st.text_input values of "New Teacher Name"
NewTeacherNames == {"", "r. singh"}

\* the scan that compares the names as they are written
teacher_exists_exact(teachers_data, school_name, teacher_name) ==
    \E i \in 1..Len(teachers_data) : /\ teachers_data[i].school = school_name
                                     /\ teachers_data[i].name = teacher_name

\* the scan that finds nothing
teacher_exists_never(teachers_data, school_name, teacher_name) == FALSE

\* the scan that returns after the first row it listed
teacher_exists_first_row(teachers_data, school_name, teacher_name) ==
    /\ teachers_data # <<>>
    /\ teachers_data[1].school = school_name
    /\ Lower(teachers_data[1].name) = Lower(teacher_name)

\* the scan of add_new_teacher over the rows it listed: a row of the school
\* whose Teacher Name equals teacher_name ignoring case
teacher_exists(teachers_data, school_name, teacher_name) ==
    \E i \in 1..Len(teachers_data) : /\ teachers_data[i].school = school_name
                                     /\ Lower(teachers_data[i].name) = Lower(teacher_name)

\* add_new_teacher: rejects a name the school already has (ignoring case),
\* appends one row otherwise; ok = FALSE is a failing remote call
add_new_teacher(rows, school_name, teacher_name, is_trained, ok) ==
    IF ~ok THEN [rows |-> rows, result |-> FALSE]
    ELSE IF teacher_exists(rows, school_name, teacher_name)
         THEN [rows |-> rows, result |-> FALSE]
         ELSE [rows |-> Append(rows, [school |-> school_name, name |-> teacher_name,
                                      trained |-> is_trained]),
               result |-> TRUE]

\* the handler without the test of the selection
teacher_selection_next_unchecked(ss, trained_teachers, untrained_teachers) ==
    Put(Put(ss, "teacher_details",
            JDict(<< <<"trained_teachers", JList([i \in 1..Len(trained_teachers) |->
                                                  JStr(trained_teachers[i])])>>,
                     <<"untrained_teachers", JList([i \in 1..Len(untrained_teachers) |->
                                                    JStr(untrained_teachers[i])])>> >>)),
        "page", 3)

\* the "Next" handler of teacher_selection_section
teacher_selection_next(ss, trained_teachers, untrained_teachers) ==
    IF trained_teachers # <<>> \/ untrained_teachers # <<>>
    THEN Put(Put(ss, "teacher_details",
                 JDict(<< <<"trained_teachers", JList([i \in 1..Len(trained_teachers) |->
                                                       JStr(trained_teachers[i])])>>,
                          <<"untrained_teachers", JList([i \in 1..Len(untrained_teachers) |->
                                                         JStr(untrained_teachers[i])])>> >>)),
             "page", 3)
    ELSE ss

\* a Previous that drops what was collected after the page it returns to
previous_to_clears(ss, page) ==
    LET kept == (DOMAIN ss) \ (IF page = 1 THEN {"teacher_details"}
                               ELSE IF page = 2 THEN {"observations", "media"}
                               ELSE IF page = 3 THEN {"infrastructure"}
                               ELSE {"community"})
    IN  Put([k \in kept |-> ss[k]], "page", page)

\* a Previous that also runs the "Initialize session state" assignments
previous_to_resets_type(ss, page) == Put(Put(ss, "page", page), "visit_type", "Daily")

\* the "Previous" handler of the sections 2 to 5: only the page is written
previous_to(ss, page) == Put(ss, "page", page)

\* the guard without the redirect
teacher_selection_guard_stays(ss) == ss

\* the guard of teacher_selection_section: no basic_details in the session
teacher_selection_guard(ss) == Put(ss, "page", 1)

teacher_selection_section ==
    /\ Running
    /\ session_state.page = 2
    /\ IF ~Has(session_state, "basic_details")
       THEN /\ session_state' = teacher_selection_guard(session_state)
            /\ run' = Ran(2, "none", "redirected")
            /\ UNCHANGED Teachers
       ELSE LET school_name == session_state.basic_details.school_name
            IN  \* the inputs a run reads depend on the button that was pressed
                \/ \E new_teacher_name \in NewTeacherNames,
                      training_status \in {"Trained", "Untrained"}, addOk \in BOOLEAN :
                     LET added == add_new_teacher(Teachers, school_name, new_teacher_name,
                                                  training_status = "Trained", addOk)
                     IN  \* a successful add ends the run with st.rerun(): the section
                         \* is rendered again and no button is pressed
                         /\ Teachers' = IF new_teacher_name # "" THEN added.rows ELSE Teachers
                         /\ UNCHANGED session_state
                         /\ run' = RanWith(2, "add_teacher",
                                           IF new_teacher_name = "" THEN "invalid"
                                           ELSE IF added.result THEN "teacher_added"
                                           ELSE "teacher_rejected",
                                           [school_name |-> school_name,
                                            new_teacher_name |-> new_teacher_name],
                                           NoSession)
                \/ /\ session_state' = previous_to(session_state, 1)
                   /\ run' = Ran(2, "previous", "retreated")
                   /\ UNCHANGED Teachers
                \/ \E teachersOk \in BOOLEAN :
                     LET teachers == get_school_teachers(Teachers, school_name, teachersOk)
                     IN  \E trained_teachers \in Selections(teachers.trained),
                            untrained_teachers \in Selections(teachers.untrained) :
                           /\ session_state' = teacher_selection_next(session_state,
                                                   trained_teachers, untrained_teachers)
                           /\ run' = RanWith(2, "next",
                                             IF trained_teachers # <<>> \/ untrained_teachers # <<>>
                                             THEN "advanced" ELSE "invalid",
                                             [trained_teachers |-> trained_teachers,
                                              untrained_teachers |-> untrained_teachers,
                                              teachersOk |-> teachersOk],
                                             NoSession)
                           /\ UNCHANGED Teachers
                \/ /\ run' = Ran(2, "none", "rendered")
                   /\ UNCHANGED <<session_state, Teachers>>
    /\ UNCHANGED <<Schools, Observations, workbooks, calls>>

----------------------------------------------------------------------------
(* Record assembly and persistence *)

\* the dict d after d[k] = val for every k of keys, in order
RECURSIVE FillDict(_, _, _)
FillDict(d, keys, val) ==
    IF keys = <<>> THEN d
    ELSE FillDict(DictSet(d, Head(keys), val), Tail(keys), val)

\* the strings of a JSON list of strings
Strings(jlist) == [i \in 1..Len(jlist.v) |-> jlist.v[i].v]

\* the row save_observation builds from data (a mapping like the session)
observation_row(data, timestamp) ==
    LET monthly == data["basic_details"].visit_type = "Monthly"
    IN  [timestamp       |-> timestamp,
         pm_name         |-> data["basic_details"].pm_name,
         school_name     |-> data["basic_details"].school_name,
         visit_date      |-> data["basic_details"].visit_date,
         visit_type      |-> data["basic_details"].visit_type,
         teacher_details |-> JsonDumps(data["teacher_details"]),
         observations    |-> JsonDumps(GetOrEmpty(data, "observations")),
         infrastructure  |-> JsonDumps(IF monthly THEN GetOrEmpty(data, "infrastructure")
                                       ELSE EmptyDict),
         community       |-> JsonDumps(IF monthly THEN GetOrEmpty(data, "community")
                                       ELSE EmptyDict),
         media           |-> JsonDumps(GetOrEmpty(data, "media"))]

\* two rows that differ at most in the Timestamp column
SameData(r1, r2) == [r1 EXCEPT !.timestamp = ""] = [r2 EXCEPT !.timestamp = ""]

\* a save that appends nothing when the sheet already holds the same data
save_observation_idempotent(rows, data, ok, timestamp) ==
    IF ~ok \/ ~Has(data, "basic_details") \/ ~Has(data, "teacher_details")
    THEN [rows |-> rows, result |-> FALSE]
    ELSE IF \E n \in 1..Len(rows) : SameData(rows[n], observation_row(data, timestamp))
    THEN [rows |-> rows, result |-> TRUE]
    ELSE [rows |-> Append(rows, observation_row(data, timestamp)), result |-> TRUE]

\* a save that writes the row with empty cells for the keys that are missing
save_observation_partial(rows, data, ok, timestamp) ==
    IF ~ok THEN [rows |-> rows, result |-> FALSE]
    ELSE IF ~Has(data, "basic_details") \/ ~Has(data, "teacher_details")
    THEN [rows |-> Append(rows, [timestamp |-> timestamp, pm_name |-> "", school_name |-> "",
                                 visit_date |-> "", visit_type |-> "", teacher_details |-> "",
                                 observations |-> JsonDumps(GetOrEmpty(data, "observations")),
                                 infrastructure |-> "{}", community |-> "{}",
                                 media |-> JsonDumps(GetOrEmpty(data, "media"))]),
          result |-> TRUE]
    ELSE [rows |-> Append(rows, observation_row(data, timestamp)), result |-> TRUE]

\* a save that writes the row above the rows of the sheet (insert_row)
save_observation_inserts_first(rows, data, ok, timestamp) ==
    IF ~ok \/ ~Has(data, "basic_details") \/ ~Has(data, "teacher_details")
    THEN [rows |-> rows, result |-> FALSE]
    ELSE [rows |-> <<observation_row(data, timestamp)>> \o rows, result |-> TRUE]

\* save_observation: appends the row and returns True; returns False when the
\* sheet or the append fails (ok = FALSE) or a key the row needs is missing
save_observation(rows, data, ok, timestamp) ==
    IF ~ok \/ ~Has(data, "basic_details") \/ ~Has(data, "teacher_details")
    THEN [rows |-> rows, result |-> FALSE]
    ELSE [rows |-> Append(rows, observation_row(data, timestamp)), result |-> TRUE]

\* the data submit_form compiles from the session
submit_data(ss) ==
    LET base == [k \in {"basic_details", "teacher_details", "observations", "media"} |->
                    IF k \in {"basic_details", "teacher_details"} THEN ss[k]
                    ELSE GetOrEmpty(ss, k)]
    IN  IF ss.visit_type = "Monthly"
        THEN Put(Put(base, "infrastructure", GetOrEmpty(ss, "infrastructure")),
                 "community", GetOrEmpty(ss, "community"))
        ELSE base

\* the reset without the clearing loop
clear_session_page_only(ss) == Put(ss, "page", 1)

\* the clearing loop of submit_form (every key is deleted), then page = 1
clear_session(ss) == Put([k \in {} |-> ss[k]], "page", 1)

\* a submit_form whose row is built from whatever the session holds, with
\* neither test of the visit type
submit_form_unfiltered(ss, rows, ok, timestamp) ==
    IF ~Has(ss, "basic_details") \/ ~Has(ss, "teacher_details")
    THEN [ss |-> ss, rows |-> rows, outcome |-> "exception", submitted |-> ss]
    ELSE IF ~ok
    THEN [ss |-> ss, rows |-> rows, outcome |-> "save_failed", submitted |-> ss]
    ELSE [ss |-> basic_details_run(clear_session(ss), NoProgramManagers, NoSchools,
                                   CHOOSE d \in Dates : TRUE, VisitTypes[1], "none"),
          rows |-> Append(rows,
                     [observation_row(submit_data(ss), timestamp) EXCEPT
                        !.infrastructure = JsonDumps(GetOrEmpty(ss, "infrastructure")),
                        !.community = JsonDumps(GetOrEmpty(ss, "community"))]),
          outcome |-> "saved", submitted |-> ss]

\* a submit_form that clears the session whatever save_observation returns
submit_form_clears_always(ss, rows, ok, timestamp) ==
    IF ~Has(ss, "basic_details") \/ ~Has(ss, "teacher_details")
    THEN [ss |-> ss, rows |-> rows, outcome |-> "exception", submitted |-> ss]
    ELSE LET saved == save_observation(rows, submit_data(ss), ok, timestamp)
         IN  [ss |-> basic_details_run(clear_session(ss), NoProgramManagers, NoSchools,
                                       CHOOSE d \in Dates : TRUE, VisitTypes[1], "none"),
              rows |-> saved.rows,
              outcome |-> IF saved.result THEN "saved" ELSE "save_failed",
              submitted |-> ss]

\* submit_form: on a successful save the session is cleared, the page is 1
\* and st.rerun() renders BasicDetails again (fresh widgets, no button)
submit_form(ss, rows, ok, timestamp) ==
    IF ~Has(ss, "basic_details") \/ ~Has(ss, "teacher_details")
    THEN [ss |-> ss, rows |-> rows, outcome |-> "exception", submitted |-> ss]
    ELSE LET saved == save_observation(rows, submit_data(ss), ok, timestamp)
         IN  IF saved.result
             THEN [ss |-> basic_details_run(clear_session(ss), NoProgramManagers, NoSchools,
                                            CHOOSE d \in Dates : TRUE, VisitTypes[1], "none"),
                   rows |-> saved.rows, outcome |-> "saved", submitted |-> ss]
             ELSE [ss |-> ss, rows |-> rows, outcome |-> "save_failed", submitted |-> ss]

----------------------------------------------------------------------------
(* ClassroomObservation *)

YesNoSometimes == <<"Yes", "No", "Sometimes">>
YesNoPartial == <<"Yes", "No", "Partial">>
Conditions == <<"Good", "Average", "Poor">>

\* what the uploaders of a teacher's tab return in a run and the uploads
\* that fail: no file, or a photo that is uploaded and a video that is not
UploadInputs == { [photos |-> <<>>, videos |-> <<>>, failed |-> {}],
                  [photos |-> <<"a.jpg">>, videos |-> <<"b.mp4">>, failed |-> {"b.mp4"}] }

\* the answers the metric selectboxes of a run take
Answers == {"Yes"}

\* upload_to_drive: the file id, or None ("") when the upload fails
upload_to_drive(name, failed) == IF name \in failed THEN "" ELSE "id-" \o name

\* the uploads in one try: the first file that fails ends them all
handle_media_upload_aborts(photos, videos, failed) ==
    LET files == [i \in 1..Len(photos) |-> <<"photo", photos[i]>>] \o
                 [i \in 1..Len(videos) |-> <<"video", videos[i]>>]
        stop == IF \E i \in 1..Len(files) : files[i][2] \in failed
                THEN CHOOSE i \in 1..Len(files) :
                        /\ files[i][2] \in failed
                        /\ \A j \in 1..(i - 1) : files[j][2] \notin failed
                ELSE Len(files) + 1
    IN  JList([i \in 1..(stop - 1) |->
                 JDict(<< <<"type", JStr(files[i][1])>>, <<"name", JStr(files[i][2])>>,
                          <<"file_id", JStr(upload_to_drive(files[i][2], failed))>> >>)])

\* handle_media_upload: one entry per file whose upload returned an id,
\* photos first, then videos; a file whose read or upload fails (failed) is
\* reported and left out
handle_media_upload(photos, videos, failed) ==
    LET Up(name) == upload_to_drive(name, failed) # ""
        Entry(kind, name) == JDict(<< <<"type", JStr(kind)>>, <<"name", JStr(name)>>,
                                      <<"file_id", JStr(upload_to_drive(name, failed))>> >>)
        ph == SelectSeq(photos, Up)
        vi == SelectSeq(videos, Up)
    IN  JList([i \in 1..Len(ph) |-> Entry("photo", ph[i])] \o
              [i \in 1..Len(vi) |-> Entry("video", vi[i])])

\* the two lists joined the other way round
all_teachers_untrained_first(teacher_details) ==
    Strings(DictGet(teacher_details, "untrained_teachers")) \o
    Strings(DictGet(teacher_details, "trained_teachers"))

\* teacher_details["trained_teachers"] + teacher_details["untrained_teachers"]
all_teachers(teacher_details) ==
    Strings(DictGet(teacher_details, "trained_teachers")) \o
    Strings(DictGet(teacher_details, "untrained_teachers"))

\* the entry of one teacher in the observations dict, every metric answered alike
observation_entry(answer) ==
    JDict(<< <<"teacher_metrics", JDict(<< <<"lesson_plan", JStr(answer)>>,
                                           <<"movement", JStr(answer)>>,
                                           <<"activities", JStr(answer)>> >>)>>,
             <<"student_metrics", JDict(<< <<"questions", JStr(answer)>>,
                                           <<"explanation", JStr(answer)>>,
                                           <<"involvement", JStr(answer)>> >>)>> >>)

\* the forward handler without the test of the visit type
classroom_observation_next_always4(ss, rows, observations, media_data, ok, timestamp) ==
    LET stored == Put(Put(ss, "observations", observations), "media", media_data)
    IN  [ss |-> Put(stored, "page", 4), rows |-> rows, outcome |-> "advanced",
         submitted |-> NoSession]

\* the forward handler without the two assignments to the session
classroom_observation_next_unstored(ss, rows, observations, media_data, ok, timestamp) ==
    IF ss.visit_type = "Monthly"
    THEN [ss |-> Put(ss, "page", 4), rows |-> rows, outcome |-> "advanced",
          submitted |-> NoSession]
    ELSE submit_form(ss, rows, ok, timestamp)

\* the forward handler that keeps the observations and the media the
\* session already holds
classroom_observation_next_keeps_first(ss, rows, observations, media_data, ok, timestamp) ==
    LET stored == Put(Put(ss, "observations",
                          IF Has(ss, "observations") THEN ss.observations ELSE observations),
                      "media", IF Has(ss, "media") THEN ss.media ELSE media_data)
    IN  IF stored.visit_type = "Monthly"
        THEN [ss |-> Put(stored, "page", 4), rows |-> rows, outcome |-> "advanced",
              submitted |-> NoSession]
        ELSE submit_form(stored, rows, ok, timestamp)

\* the forward handler of classroom_observation_section: stores the
\* observations and the media, then goes to page 4 (Monthly) or submits
classroom_observation_next(ss, rows, observations, media_data, ok, timestamp) ==
    LET stored == Put(Put(ss, "observations", observations), "media", media_data)
    IN  IF stored.visit_type = "Monthly"
        THEN [ss |-> Put(stored, "page", 4), rows |-> rows, outcome |-> "advanced",
              submitted |-> NoSession]
        ELSE submit_form(stored, rows, ok, timestamp)

\* the guard of classroom_observation_section: no teacher_details in the session
classroom_observation_guard(ss) == Put(ss, "page", 2)

classroom_observation_section ==
    /\ Running
    /\ session_state.page = 3
    /\ IF ~Has(session_state, "teacher_details")
       THEN /\ session_state' = classroom_observation_guard(session_state)
            /\ run' = Ran(3, "none", "redirected")
            /\ UNCHANGED Observations
       ELSE IF all_teachers(session_state.teacher_details) = <<>>
       THEN /\ run' = Ran(3, "none", "no_teachers")
            /\ UNCHANGED <<session_state, Observations>>
       ELSE IF ~Has(session_state, "basic_details")
       THEN \* handle_media_upload is passed basic_details["school_name"]
            /\ run' = Ran(3, "none", "exception")
            /\ UNCHANGED <<session_state, Observations>>
       ELSE LET teachers == all_teachers(session_state.teacher_details)
                forward == IF session_state.visit_type = "Monthly" THEN "next" ELSE "submit"
            IN  \* every tab is rendered, and the files its uploaders return are
                \* uploaded, before a button is looked at
                \E answer \in Answers, up \in UploadInputs :
                  LET observations == FillDict(EmptyDict, teachers, observation_entry(answer))
                      media_data == FillDict(EmptyDict, teachers,
                                        handle_media_upload(up.photos, up.videos, up.failed))
                  IN  \/ /\ session_state' = previous_to(session_state, 2)
                         /\ run' = RanWith(3, "previous", "retreated",
                                           [media_data |-> media_data], NoSession)
                         /\ UNCHANGED Observations
                      \/ \E ok \in BOOLEAN, timestamp \in Timestamps :
                           LET after == classroom_observation_next(session_state, Observations,
                                            observations, media_data, ok, timestamp)
                           IN  /\ session_state' = after.ss
                               /\ Observations' = after.rows
                               /\ run' = RanWith(3, forward, after.outcome,
                                                 [media_data |-> media_data], after.submitted)
                      \/ /\ run' = RanWith(3, "none", "rendered",
                                           [media_data |-> media_data], NoSession)
                         /\ UNCHANGED <<session_state, Observations>>
    /\ UNCHANGED <<Schools, Teachers, workbooks, calls>>

----------------------------------------------------------------------------
(* Infrastructure and Community (Monthly visits) *)

Subjects == <<"Mathematics", "Science", "Language", "Social Studies">>

\* the infrastructure_data dict when every selectbox holds its i-th option
infrastructure_data(i) ==
    FillDict(EmptyDict, Subjects,
             JDict(<< <<"materials", JStr(YesNoPartial[i])>>,
                      <<"storage", JStr(YesNoPartial[i])>>,
                      <<"condition", JStr(Conditions[i])>> >>))

\* the community_data dict when every selectbox holds its i-th option
community_data(i) ==
    JDict(<< <<"parent_meetings", JStr(YesNoSometimes[i])>>,
             <<"community_support", JStr(YesNoPartial[i])>>,
             <<"volunteer_programs", JStr(YesNoPartial[i])>>,
             <<"resource_mobilization", JStr(YesNoPartial[i])>> >>)

ChoiceIndexes == 1..(IF MaxChoices < 3 THEN MaxChoices ELSE 3)

\* the render whose "Next" writes the page of "Previous"
infrastructure_run_back(ss, i, button) ==
    LET shown == Put(ss, "infrastructure", infrastructure_data(i))
    IN  CASE button = "previous" -> previous_to(shown, 3)
          [] button = "next"     -> Put(shown, "page", 3)
          [] OTHER               -> shown

\* one render of infrastructure_section past its guard: the widget values
\* are stored on every render, then the button is handled
infrastructure_run(ss, i, button) ==
    LET shown == Put(ss, "infrastructure", infrastructure_data(i))
    IN  CASE button = "previous" -> previous_to(shown, 3)
          [] button = "next"     -> Put(shown, "page", 5)
          [] OTHER               -> shown

\* the guard of infrastructure_section: the visit type is not Monthly
infrastructure_guard(ss) == Put(ss, "page", 3)

infrastructure_section ==
    /\ Running
    /\ session_state.page = 4
    /\ IF session_state.visit_type # "Monthly"
       THEN /\ session_state' = infrastructure_guard(session_state)
            /\ run' = Ran(4, "none", "redirected")
       ELSE \E i \in ChoiceIndexes, button \in {"none", "previous", "next"} :
              /\ session_state' = infrastructure_run(session_state, i, button)
              /\ run' = Ran(4, button,
                            CASE button = "previous" -> "retreated"
                              [] button = "next"     -> "advanced"
                              [] OTHER               -> "rendered")
    /\ UNCHANGED <<Schools, Teachers, Observations, workbooks, calls>>

\* the render in which the "Submit" button has no handler
community_run_submit_unhandled(ss, rows, i, button, ok, timestamp) ==
    LET shown == Put(ss, "community", community_data(i))
    IN  CASE button = "previous" ->
               [ss |-> previous_to(shown, 4), rows |-> rows, outcome |-> "retreated",
                submitted |-> NoSession]
          [] OTHER -> [ss |-> shown, rows |-> rows, outcome |-> "rendered",
                       submitted |-> NoSession]

\* one render of community_section past its guard
community_run(ss, rows, i, button, ok, timestamp) ==
    LET shown == Put(ss, "community", community_data(i))
    IN  CASE button = "previous" ->
               [ss |-> previous_to(shown, 4), rows |-> rows, outcome |-> "retreated",
                submitted |-> NoSession]
          [] button = "submit" -> submit_form(shown, rows, ok, timestamp)
          [] OTHER -> [ss |-> shown, rows |-> rows, outcome |-> "rendered",
                       submitted |-> NoSession]

\* the guard of community_section: the visit type is not Monthly
community_guard(ss) == Put(ss, "page", 4)

community_section ==
    /\ Running
    /\ session_state.page = 5
    /\ IF session_state.visit_type # "Monthly"
       THEN /\ session_state' = community_guard(session_state)
            /\ run' = Ran(5, "none", "redirected")
            /\ UNCHANGED Observations
       ELSE \E i \in ChoiceIndexes, button \in {"none", "previous", "submit"},
               timestamp \in Timestamps :
              \E ok \in IF button = "submit" THEN BOOLEAN ELSE {TRUE} :
                LET after == community_run(session_state, Observations, i, button, ok, timestamp)
                IN  /\ session_state' = after.ss
                    /\ Observations' = after.rows
                    /\ run' = RanWith(5, button, after.outcome, <<>>, after.submitted)
    /\ UNCHANGED <<Schools, Teachers, workbooks, calls>>

----------------------------------------------------------------------------
(* The program *)

\* the session of a new browser session, after the "Initialize session
\* state" block of the first run
InitSession == [page |-> 1, visit_type |-> "Daily"]

\* a submission leaves the session as a new browser session has it, so a
\* further visit differs from the first in the rows of the sheet only: the
\* sheet starts one row short of the end of the run
Init ==
    /\ session_state = InitSession
    /\ Schools = SchoolsInit
    /\ Teachers = TeachersInit
    /\ Observations = ObservationsInit \o [n \in 1..(MaxRows - 1) |-> EarlierRow]
    /\ run = Ran(0, "none", "started")
    /\ workbooks = WorkbooksInit
    /\ calls = CallsInit

Next ==
    \/ basic_details_section
    \/ teacher_selection_section
    \/ classroom_observation_section
    \/ infrastructure_section
    \/ community_section

Spec == Init /\ [][Next]_vars

----------------------------------------------------------------------------
(* The sections as handlers of an arbitrary session: st.session_state is     *)
(* the input of a section function, and a caller of the function may hand it *)
(* any combination of present and absent keys                                *)

Opt(S) == {<<>>} \cup {<<x>> : x \in S}

PutOpt(ss, k, o) == IF o = <<>> THEN ss ELSE Put(ss, k, o[1])

AnySessions ==
    { PutOpt(PutOpt(PutOpt(PutOpt(PutOpt(PutOpt(
         [page |-> p, visit_type |-> vt],
         "basic_details", bd), "teacher_details", td), "observations", ob),
         "media", me), "infrastructure", inf), "community", co) :
        p \in 1..5, vt \in Range(VisitTypes),
        bd \in Opt({[pm_name |-> "Asha", school_name |-> "Greenfield",
                     visit_date |-> strftime(d), visit_type |-> t] :
                        d \in Dates, t \in Range(VisitTypes)}),
        td \in Opt({teacher_selection_next(InitSession, q, <<>>).teacher_details :
                        q \in {<<"R. Singh">>}} \cup
                   {JDict(<< <<"trained_teachers", JList(<<>>)>>,
                             <<"untrained_teachers", JList(<<>>)>> >>)}),
        ob \in Opt({FillDict(EmptyDict, <<"R. Singh">>, observation_entry("Yes"))}),
        me \in Opt({FillDict(EmptyDict, <<"R. Singh">>, JList(<<>>))}),
        inf \in Opt({infrastructure_data(1)}),
        co \in Opt({community_data(1)}) }

\* the sheet is one row short of the end of the run
InitAnySession ==
    /\ session_state \in AnySessions
    /\ Schools = SchoolsInit
    /\ Teachers = TeachersInit
    /\ Observations = ObservationsInit \o [n \in 1..(MaxRows - 1) |-> EarlierRow]
    /\ run = Ran(0, "none", "started")
    /\ workbooks = WorkbooksInit
    /\ calls = CallsInit

SpecAnySession == InitAnySession /\ [][Next]_vars

----------------------------------------------------------------------------
(* The wizard at a school with two trained teachers and an untrained one,    *)
(* up to the next row of the Observations sheet                              *)

TeachersOfThree ==
    << [school |-> "Greenfield", name |-> "R. Singh", trained |-> TRUE],
       [school |-> "Greenfield", name |-> "K. Das",   trained |-> TRUE],
       [school |-> "Greenfield", name |-> "M. Rao",   trained |-> FALSE] >>

InitThreeTeachers ==
    /\ session_state = InitSession
    /\ Schools = SchoolsInit
    /\ Teachers = TeachersOfThree
    /\ Observations = ObservationsInit \o [n \in 1..(MaxRows - 1) |-> EarlierRow]
    /\ run = Ran(0, "none", "started")
    /\ workbooks = WorkbooksInit
    /\ calls = CallsInit

SpecThreeTeachers == InitThreeTeachers /\ [][Next]_vars

----------------------------------------------------------------------------
(* The wizard of a program manager with two schools, each with teachers of  *)
(* its own, up to the next row of the Observations sheet                     *)

SchoolsOfTwo ==
    << [school |-> "Greenfield", pm |-> "Asha"],
       [school |-> "Hilltop",    pm |-> "Asha"] >>

TeachersOfTwo ==
    << [school |-> "Greenfield", name |-> "R. Singh", trained |-> TRUE],
       [school |-> "Hilltop",    name |-> "K. Das",   trained |-> TRUE] >>

InitTwoSchools ==
    /\ session_state = InitSession
    /\ Schools = SchoolsOfTwo
    /\ Teachers = TeachersOfTwo
    /\ Observations = ObservationsInit \o [n \in 1..(MaxRows - 1) |-> EarlierRow]
    /\ run = Ran(0, "none", "started")
    /\ workbooks = WorkbooksInit
    /\ calls = CallsInit

SpecTwoSchools == InitTwoSchools /\ [][Next]_vars

----------------------------------------------------------------------------
(* The wizard in the hands of a user who, from some run on, only presses the *)
(* forward button of the page shown, with input the page accepts and remote  *)
(* calls that succeed. Hilltop has no teacher yet.                           *)

TeachersOfOne ==
    << [school |-> "Greenfield", name |-> "R. Singh", trained |-> TRUE] >>

InitForward ==
    /\ session_state = InitSession
    /\ Schools = SchoolsOfTwo
    /\ Teachers = TeachersOfOne
    /\ Observations = ObservationsInit \o [n \in 1..(MaxRows - 1) |-> EarlierRow]
    /\ run = Ran(0, "none", "started")
    /\ workbooks = WorkbooksInit
    /\ calls = CallsInit

\* the run that ends a step pressed the forward button of its page ("Next"
\* or "Submit") and the handler of the button moved the wizard on: the input
\* was valid and the remote calls of the run succeeded
ForwardRun ==
    /\ run'.button \in {"next", "submit"}
    /\ run'.outcome \in {"advanced", "saved"}

\* a script run that moves the wizard on
Forward == Next /\ ForwardRun

\* the user does press the forward button as long as it can move the wizard on
SpecForward == InitForward /\ [][Next]_vars /\ WF_vars(Forward)

----------------------------------------------------------------------------
(* add_new_teacher in two browser sessions at once: every session runs the  *)
(* script in a thread of its own, and the calls of a thread to the store     *)
(* (get_all_records, then append_row) interleave with the other thread's     *)

\* the names typed into "New Teacher Name" in the two sessions
ConcurrentNames == {"N. Roy", "n. roy", "r. singh"}

\* the schools of the visits of the sessions
TeacherSchools == {"Greenfield", "Lakeside"}

\* the row add_new_teacher appends
teacher_row(school_name, teacher_name, is_trained) ==
    [school |-> school_name, name |-> teacher_name, trained |-> is_trained]

\* add_new_teacher up to the rows it listed; ok = FALSE: the worksheet is
\* not obtained or get_all_records raises, and the call returns False
add_new_teacher_scan(s) ==
    /\ calls[s].pc = "idle"
    /\ Len(Teachers) < MaxTeachers
    /\ \E school_name \in TeacherSchools, teacher_name \in ConcurrentNames,
          is_trained \in BOOLEAN, ok \in BOOLEAN :
         /\ calls' = [calls EXCEPT ![s] =
                        IF ok THEN [pc |-> "scanned", school_name |-> school_name,
                                    teacher_name |-> teacher_name, is_trained |-> is_trained,
                                    teachers_data |-> Teachers]
                        ELSE Idle]
         /\ run' = RanWith(2, "add_teacher", IF ok THEN "listed" ELSE "failed",
                           [session |-> s, school_name |-> school_name,
                            new_teacher_name |-> teacher_name], NoSession)
    /\ UNCHANGED <<session_state, Schools, Teachers, Observations, workbooks>>

\* the rest of add_new_teacher: the scan of the listed rows, then append_row
\* (ok = FALSE: append_row raises)
add_new_teacher_append(s) ==
    /\ calls[s].pc = "scanned"
    /\ LET c == calls[s]
           exists == teacher_exists(c.teachers_data, c.school_name, c.teacher_name)
       IN  \E ok \in IF exists THEN {TRUE} ELSE BOOLEAN :
             /\ Teachers' = IF ~exists /\ ok
                            THEN Append(Teachers,
                                        teacher_row(c.school_name, c.teacher_name, c.is_trained))
                            ELSE Teachers
             /\ run' = RanWith(2, "add_teacher",
                               IF exists THEN "teacher_rejected"
                               ELSE IF ok THEN "teacher_added" ELSE "failed",
                               [session |-> s, school_name |-> c.school_name,
                                new_teacher_name |-> c.teacher_name], NoSession)
    /\ calls' = [calls EXCEPT ![s] = Idle]
    /\ UNCHANGED <<session_state, Schools, Observations, workbooks>>

NextTeachers ==
    \/ \E s \in Sessions : add_new_teacher_scan(s)
    \/ \E s \in Sessions : add_new_teacher_append(s)

SpecTeachers == Init /\ [][NextTeachers]_vars

\* add_new_teacher with a single writer: the calls of one browser session,
\* one after the other
NextOneWriter ==
    \/ add_new_teacher_scan(1)
    \/ add_new_teacher_append(1)

SpecOneWriter == Init /\ [][NextOneWriter]_vars

----------------------------------------------------------------------------
(* The functions of the record store client, each called once with any     *)
(* state of the store and any outcome of its remote calls                  *)

\* states of a workbook: complete, as client.create left it, without the
\* Teachers worksheet, and with a Teachers worksheet that has no row yet
WorkbookStates ==
    { FullWorkbook,
      NewWorkbook,
      [n \in SheetNames \ {"Teachers"} |-> headers(n)],
      [n \in SheetNames |-> IF n = "Teachers" THEN <<>> ELSE headers(n)] }

\* fewer than MaxWorkbooks workbooks named "School_Observations"
StoreInits ==
    UNION { [1..n -> WorkbookStates] : n \in 0..(MaxWorkbooks - 1) }

\* no function of the store client was called yet
NotCalled == run.outcome = "started"

\* what a get_or_create_sheet run leaves in run
SheetRun(function, sheet_name, ended) ==
    RanWith(0, function,
            IF ended.raised THEN "raised"
            ELSE IF ended.sheet = None THEN "none" ELSE "sheet",
            [sheet_name |-> sheet_name, sheet |-> ended.sheet, trace |-> ended.trace],
            NoSession)

\* the outcomes a remote call may have if the run makes it (made = FALSE:
\* the call is not made and its outcome is no input of the run)
Answers01(made) == IF made THEN BOOLEAN ELSE {TRUE}

\* the workbook of that title client.open returns, if the run opens one
Picks(wbs, made) == IF made /\ wbs # <<>> THEN 1..Len(wbs) ELSE {1}

\* one run of get_or_create_sheet (of streamlit_app.py or of utility.py)
\* with any outcome of the remote calls it makes
sheet_call(function) ==
    /\ NotCalled
    /\ \E sheet_name \in SheetNames :
       \E client \in Answers01(function = "get_or_create_sheet") :
       \E open1 \in Answers01(client) :
       \E pick1 \in Picks(workbooks, client /\ open1) :
       \E worksheet \in Answers01(client /\ open1 /\ workbooks # <<>>) :
         LET found == /\ client /\ open1 /\ workbooks # <<>> /\ worksheet
                      /\ sheet_name \in DOMAIN workbooks[pick1]
             creating == client /\ ~found
         IN  \E open2 \in Answers01(creating) :
             \E pick2 \in Picks(workbooks, creating /\ open2) :
               LET opened2 == creating /\ open2 /\ workbooks # <<>>
               IN  \E create \in Answers01(creating /\ ~opened2) :
                   \E share \in Answers01(creating /\ ~opened2 /\ create) :
                   \E add_worksheet \in Answers01(opened2 \/ (creating /\ create /\ share)) :
                   \E insert_row \in Answers01(creating /\ add_worksheet) :
                     LET out == [client |-> client, open1 |-> open1, pick1 |-> pick1,
                                 worksheet |-> worksheet, open2 |-> open2, pick2 |-> pick2,
                                 create |-> create, share |-> share,
                                 add_worksheet |-> add_worksheet, insert_row |-> insert_row]
                         ended == IF function = "get_or_create_sheet"
                                  THEN get_or_create_sheet(workbooks, sheet_name, out)
                                  ELSE utility_get_or_create_sheet(workbooks, sheet_name, out)
                     IN  /\ workbooks' = ended.workbooks
                         /\ run' = SheetRun(function, sheet_name, ended)

get_or_create_sheet_call ==
    /\ sheet_call("get_or_create_sheet")
    /\ UNCHANGED <<session_state, Schools, Teachers, Observations, calls>>

utility_get_or_create_sheet_call ==
    /\ sheet_call("utility.get_or_create_sheet")
    /\ UNCHANGED <<session_state, Schools, Teachers, Observations, calls>>

\* the data save_observation may be handed: any of the keys present
AnyData ==
    LET sample == [basic_details   |-> [pm_name |-> "Asha", school_name |-> "Greenfield",
                                        visit_date |-> "2024-05-01", visit_type |-> "Monthly"],
                   teacher_details |-> teacher_selection_next(InitSession, <<"R. Singh">>,
                                                              <<>>).teacher_details,
                   observations    |-> FillDict(EmptyDict, <<"R. Singh">>,
                                                observation_entry("Yes")),
                   infrastructure  |-> infrastructure_data(1),
                   community       |-> community_data(1)]
    IN  { [k \in K |-> sample[k]] : K \in SUBSET (DOMAIN sample) }

save_observation_call ==
    /\ NotCalled
    /\ \E data \in AnyData, ok \in BOOLEAN, timestamp \in Timestamps :
         LET saved == save_observation(Observations, data, ok, timestamp)
         IN  /\ Observations' = saved.rows
             /\ run' = RanWith(0, "save_observation",
                               IF saved.result THEN "true" ELSE "false",
                               [data |-> data, ok |-> ok], NoSession)
    /\ UNCHANGED <<session_state, Schools, Teachers, workbooks, calls>>

\* the files a user may give to the two uploaders of a tab
PhotoFiles == <<"a.jpg", "c.png">>
VideoFiles == <<"b.mp4">>

\* one call of handle_media_upload with any files and any uploads failing
handle_media_upload_call ==
    /\ NotCalled
    /\ \E photos \in Selections(PhotoFiles), videos \in Selections(VideoFiles),
          failed \in SUBSET (Range(PhotoFiles) \cup Range(VideoFiles)) :
         run' = RanWith(0, "handle_media_upload", "returned",
                        [photos |-> photos, videos |-> videos, failed |-> failed,
                         uploaded_files |-> handle_media_upload(photos, videos, failed)],
                        NoSession)
    /\ UNCHANGED <<session_state, Schools, Teachers, Observations, workbooks, calls>>

InitStore ==
    /\ session_state = InitSession
    /\ Schools = SchoolsInit
    /\ Teachers = TeachersInit
    /\ Observations = ObservationsInit
    /\ run = Ran(0, "none", "started")
    /\ workbooks \in StoreInits
    /\ calls = CallsInit

NextStore ==
    \/ get_or_create_sheet_call
    \/ utility_get_or_create_sheet_call
    \/ save_observation_call
    \/ handle_media_upload_call

SpecStore == InitStore /\ [][NextStore]_vars

----------------------------------------------------------------------------
(* Properties *)

\* an entity of a session as a value: <<>> when the key is absent
EntityOf(ss, k) == IF Has(ss, k) THEN <<ss[k]>> ELSE <<>>

LastRow == Observations[Len(Observations)]

\* C1: while the visit type of the session is Daily the page is never 4
\* (Infrastructure) or 5 (Community), and the forward button of
\* ClassroomObservation in a Daily session submits and never sets page 4.
C1_DailyPath ==
    /\ [](session_state.visit_type = "Daily" => session_state.page \in 1..3)
    /\ [][ (/\ session_state.page = 3
            /\ session_state.visit_type = "Daily"
            /\ run'.button \notin {"none", "previous"})
           => /\ run'.section = 3
              /\ run'.outcome \in {"saved", "save_failed"}
              /\ DOMAIN run'.submitted # {}
              /\ session_state'.page # 4 ]_vars

C1_Witness ==
    /\ run.section = 3 /\ run.button = "submit" /\ run.outcome = "saved"
    /\ Observations # <<>> /\ LastRow.visit_type = "Daily"
    /\ session_state.page = 1

\* C2: in a Monthly session the forward button leads from page 1 to 2, from 2
\* to 3, from 3 to 4 without submitting, from 4 to 5, and submit_form is only
\* called from Community (page 5); no forward step skips a page.
C2_MonthlyPath ==
    [][ LET monthly == IF run'.section = 1 THEN session_state'.visit_type = "Monthly"
                       ELSE session_state.visit_type = "Monthly"
        IN  (monthly /\ run'.button \in {"next", "submit"})
            => /\ run'.section = 1 => session_state'.page \in {1, 2}
               /\ run'.section = 2 => session_state'.page \in {2, 3}
               /\ run'.section = 3 => /\ session_state'.page = 4
                                      /\ DOMAIN run'.submitted = {}
                                      /\ Observations' = Observations
               /\ run'.section = 4 => /\ session_state'.page = 5
                                      /\ DOMAIN run'.submitted = {}
                                      /\ Observations' = Observations
               /\ (DOMAIN run'.submitted # {} \/ Observations' # Observations)
                     => run'.section = 5 ]_vars

C2_Witness ==
    /\ run.section = 5 /\ run.button = "submit" /\ run.outcome = "saved"
    /\ run.submitted.visit_type = "Monthly"
    /\ Observations # <<>> /\ LastRow.visit_type = "Monthly"

\* C3: every row of the Observations sheet whose Visit Type is not Monthly has
\* "{}" as its Infrastructure Data and as its Community Data, also when the
\* session that was submitted held infrastructure or community data.
C3_DailyRowsCleared ==
    \A n \in 1..Len(Observations) :
        Observations[n].visit_type # "Monthly"
            => Observations[n].infrastructure = "{}" /\ Observations[n].community = "{}"

C3_Witness ==
    /\ run.outcome = "saved"
    /\ Has(run.submitted, "infrastructure") /\ Has(run.submitted, "community")
    /\ run.submitted.infrastructure # EmptyDict
    /\ run.submitted.basic_details.visit_type = "Daily"
    /\ LastRow.visit_type = "Daily" /\ LastRow.infrastructure = "{}"

\* C4: every step that appends an Observations row calls submit_form with a
\* session that holds basic_details, teacher_details and observations, and
\* infrastructure and community as well when its visit type is Monthly.
C4_UpstreamEntitiesExist ==
    [][ Observations' # Observations
        => /\ {"basic_details", "teacher_details", "observations"} \subseteq DOMAIN run'.submitted
           /\ run'.submitted.visit_type = "Monthly"
                 => {"infrastructure", "community"} \subseteq DOMAIN run'.submitted ]_vars

C4_Witness ==
    /\ run.outcome = "saved" /\ Len(Observations) = Len(ObservationsInit) + 1
    /\ Entities \subseteq DOMAIN run.submitted
    /\ run.submitted.visit_type = "Monthly"
    /\ run.submitted.basic_details.visit_type = "Monthly"

\* C5: after a run that saved the observation, the row assembled from the
\* submitted session is the last row of the sheet, the page is 1 and the
\* session holds none of basic_details, teacher_details, observations,
\* infrastructure, community and media.
C5_SubmitResets ==
    run.outcome = "saved"
        => /\ Len(Observations) > Len(ObservationsInit)
           /\ LastRow = observation_row(submit_data(run.submitted), LastRow.timestamp)
           /\ session_state.page = 1
           /\ DOMAIN session_state \cap Entities = {}

C5_Witness ==
    /\ run.outcome = "saved"
    /\ {"basic_details", "teacher_details", "observations", "media"} \subseteq DOMAIN run.submitted
    /\ session_state.page = 1
    /\ ~Has(session_state, "basic_details")

\* C6: a run that renders TeacherSelection with no basic_details in the
\* session only sets the page to 1, and a run that renders
\* ClassroomObservation with no teacher_details only sets the page to 2:
\* neither raises, writes an entity or touches the record store.
C6_GuardsRedirect ==
    [][ /\ (session_state.page = 2 /\ ~Has(session_state, "basic_details"))
           => /\ session_state' = [session_state EXCEPT !.page = 1]
              /\ run'.outcome = "redirected"
              /\ UNCHANGED <<Schools, Teachers, Observations>>
        /\ (session_state.page = 3 /\ ~Has(session_state, "teacher_details"))
           => /\ session_state' = [session_state EXCEPT !.page = 2]
              /\ run'.outcome = "redirected"
              /\ UNCHANGED <<Schools, Teachers, Observations>> ]_vars

C6_Witness ==
    /\ run.section = 2 /\ run.outcome = "redirected"
    /\ session_state.page = 1
    /\ ~Has(session_state, "basic_details")

\* C7: a press of "Next" on BasicDetails with a non-empty program manager
\* and a school other than "No schools found" stores basic_details with the
\* four values of the form and sets the page to 2; any other press leaves
\* the page at 1 and basic_details as it was (absent or unchanged).
C7_BasicDetailsAdvance ==
    [][ (run'.section = 1 /\ run'.button = "next")
        => IF run'.input.pm_name # "" /\ run'.input.school_name # "No schools found"
           THEN /\ session_state'.page = 2
                /\ Has(session_state', "basic_details")
                /\ session_state'.basic_details =
                      [pm_name     |-> run'.input.pm_name,
                       school_name |-> run'.input.school_name,
                       visit_date  |-> strftime(run'.input.visit_date),
                       visit_type  |-> run'.input.visit_type]
                /\ run'.input.pm_name # "No program managers found"
           ELSE /\ session_state'.page = 1
                /\ EntityOf(session_state', "basic_details")
                      = EntityOf(session_state, "basic_details") ]_vars

C7_Witness ==
    /\ run.section = 1 /\ run.button = "next" /\ run.outcome = "advanced"
    /\ session_state.page = 2
    /\ session_state.basic_details.school_name = "Greenfield"

\* C8: a press of "Next" on TeacherSelection with at least one selected
\* teacher stores exactly the two selected lists as teacher_details and sets
\* the page to 3; with nothing selected the page stays 2 and teacher_details
\* is as it was; a stored teacher_details always names at least one teacher.
C8_TeacherSelectionAdvance ==
    /\ [](Has(session_state, "teacher_details")
            => all_teachers(session_state.teacher_details) # <<>>)
    /\ [][ (run'.section = 2 /\ run'.button = "next")
           => IF run'.input.trained_teachers \o run'.input.untrained_teachers # <<>>
              THEN /\ session_state'.page = 3
                   /\ Has(session_state', "teacher_details")
                   /\ DictKeys(session_state'.teacher_details)
                         = <<"trained_teachers", "untrained_teachers">>
                   /\ Strings(DictGet(session_state'.teacher_details, "trained_teachers"))
                         = run'.input.trained_teachers
                   /\ Strings(DictGet(session_state'.teacher_details, "untrained_teachers"))
                         = run'.input.untrained_teachers
              ELSE /\ session_state'.page = 2
                   /\ EntityOf(session_state', "teacher_details")
                         = EntityOf(session_state, "teacher_details") ]_vars

C8_Witness ==
    /\ run.section = 2 /\ run.button = "next" /\ run.outcome = "advanced"
    /\ session_state.page = 3
    /\ all_teachers(session_state.teacher_details) = <<"R. Singh", "M. Rao">>

\* C9 as claimed: a press of "Previous" on the pages 2 to 5 sets the page
\* to the one before and leaves basic_details, teacher_details,
\* observations, infrastructure and community as they were.
C9_PreviousKeepsAll ==
    [][ run'.button = "previous"
        => /\ session_state'.page = session_state.page - 1
           /\ \A k \in {"basic_details", "teacher_details", "observations",
                        "infrastructure", "community"} :
                 EntityOf(session_state', k) = EntityOf(session_state, k) ]_vars

\* C9 amended: a press of "Previous" on the pages 2 to 5 sets the page to
\* the one before and removes no entity; basic_details, teacher_details,
\* observations and media are as they were, and so are infrastructure and
\* community except for the entity of the page that is left, which the run
\* stores from the widgets it rendered (infrastructure on page 4, community
\* on page 5).
C9_PreviousKeepsCollected ==
    [][ run'.button = "previous"
        => /\ session_state.page \in 2..5
           /\ session_state'.page = session_state.page - 1
           /\ DOMAIN session_state \subseteq DOMAIN session_state'
           /\ \A k \in {"basic_details", "teacher_details", "observations", "media"} :
                 EntityOf(session_state', k) = EntityOf(session_state, k)
           /\ session_state.page # 4
                 => EntityOf(session_state', "infrastructure")
                       = EntityOf(session_state, "infrastructure")
           /\ session_state.page # 5
                 => EntityOf(session_state', "community")
                       = EntityOf(session_state, "community")
           /\ session_state.page = 4 => Has(session_state', "infrastructure")
           /\ session_state.page = 5 => Has(session_state', "community") ]_vars

C9_Witness ==
    /\ run.section = 5 /\ run.button = "previous" /\ run.outcome = "retreated"
    /\ session_state.page = 4
    /\ Entities \subseteq DOMAIN session_state

\* C10 as claimed: once basic_details is stored (the wizard advanced past
\* BasicDetails), no run before the submission changes the visit type of
\* the session.
C10_VisitTypeFixed ==
    [][ (Has(session_state, "basic_details") /\ run'.outcome # "saved")
        => session_state'.visit_type = session_state.visit_type ]_vars

\* C10 amended: while the wizard is past BasicDetails (page 2 to 5) no run
\* before the submission changes the visit type of the session or the one in
\* basic_details; the visit type can change when BasicDetails is rendered
\* again after "Previous" on TeacherSelection.
C10_VisitTypeFixedPastBasicDetails ==
    [][ (session_state.page \in 2..5 /\ run'.outcome # "saved")
        => /\ session_state'.visit_type = session_state.visit_type
           /\ EntityOf(session_state', "basic_details")
                 = EntityOf(session_state, "basic_details") ]_vars

C10_Witness ==
    /\ run.section = 4 /\ run.button = "previous"
    /\ session_state.page = 3
    /\ Has(session_state, "infrastructure")
    /\ session_state.visit_type = "Monthly"
    /\ session_state.basic_details.visit_type = "Monthly"

\* the entities collected after BasicDetails
Downstream == Entities \ {"basic_details"}

\* C11 as claimed: BasicDetails is not re-entered with downstream entities
\* left in the session, and no run rewrites a stored basic_details while an
\* entity collected under it is kept.
C11_ContextImmutable ==
    /\ []((session_state.page = 1 /\ Has(session_state, "basic_details"))
            => DOMAIN session_state \cap Downstream = {})
    /\ [][ (/\ Has(session_state, "basic_details")
            /\ Has(session_state', "basic_details")
            /\ session_state'.basic_details # session_state.basic_details)
           => DOMAIN session_state' \cap Downstream = {} ]_vars

\* C11 amended: outside BasicDetails (pages 2 to 5) basic_details is only
\* changed by the submission that clears the session; a valid "Next" on
\* BasicDetails, also when the page was re-entered with "Previous", writes
\* basic_details from the form and sets page 2, and no run that renders
\* BasicDetails resets anything: every downstream entity stays as it was.
C11_ContextRewrittenInPlace ==
    [][ /\ (/\ EntityOf(session_state', "basic_details")
                  # EntityOf(session_state, "basic_details")
            /\ run'.outcome # "saved")
           => /\ session_state.page = 1
              /\ run'.section = 1 /\ run'.button = "next" /\ run'.outcome = "advanced"
              /\ session_state'.page = 2
              /\ session_state'.basic_details.visit_type = run'.input.visit_type
        /\ run'.section = 1
           => \A k \in Downstream :
                 EntityOf(session_state', k) = EntityOf(session_state, k) ]_vars

\* basic_details was rewritten from a Monthly visit (whose infrastructure is
\* still in the session) to a Daily one
C11_Witness ==
    /\ run.section = 1 /\ run.button = "next" /\ run.outcome = "advanced"
    /\ session_state.page = 2
    /\ {"teacher_details", "observations", "media", "infrastructure"}
          \subseteq DOMAIN session_state
    /\ session_state.basic_details.visit_type = "Daily"

\* C12: a press of "Add Teacher" with a name that equals, ignoring case, the
\* Teacher Name of a row of the same school is rejected: add_new_teacher
\* returns False, no row is appended and the Teachers table is as it was.
C12_DuplicateTeacherRejected ==
    [][ (/\ run'.section = 2 /\ run'.button = "add_teacher"
         /\ run'.input.new_teacher_name # ""
         /\ \E i \in 1..Len(Teachers) :
               /\ Teachers[i].school = run'.input.school_name
               /\ Lower(Teachers[i].name) = Lower(run'.input.new_teacher_name))
        => /\ Teachers' = Teachers
           /\ run'.outcome = "teacher_rejected"
           /\ session_state' = session_state ]_vars

\* "r. singh" was offered for the school that has "R. Singh"
C12_Witness ==
    /\ run.section = 2 /\ run.button = "add_teacher" /\ run.outcome = "teacher_rejected"
    /\ run.input.new_teacher_name = "r. singh"
    /\ run.input.school_name = "Greenfield"
    /\ \E i \in 1..Len(Teachers) :
          Teachers[i].school = "Greenfield" /\ Teachers[i].name = "R. Singh"
    /\ Teachers = TeachersInit

\* rows i and j of the Teachers table are the same teacher of the same school
SameTeacher(rows, i, j) ==
    rows[i].school = rows[j].school /\ Lower(rows[i].name) = Lower(rows[j].name)

\* C13: the scan and the append of add_new_teacher are separate steps.  A
\* call appends a row for a teacher the table already has only when the
\* rows it had listed held no such teacher and the other session appended
\* that teacher after the listing; a call whose listing is still the table
\* appends no duplicate.  (The witness is the interleaving with two rows.)
C13_DuplicateOnlyByRace ==
    [][ \A s \in Sessions :
          (calls[s].pc = "scanned" /\ calls'[s].pc = "idle" /\ Teachers' # Teachers)
          => LET c == calls[s]
                 new == Len(Teachers')
             IN  /\ Teachers' = Append(Teachers,
                                       teacher_row(c.school_name, c.teacher_name, c.is_trained))
                 /\ ~\E i \in 1..Len(c.teachers_data) :
                        /\ c.teachers_data[i].school = c.school_name
                        /\ Lower(c.teachers_data[i].name) = Lower(c.teacher_name)
                 /\ \A i \in 1..Len(Teachers) :
                        SameTeacher(Teachers', i, new) => i > Len(c.teachers_data)
                 /\ c.teachers_data = Teachers
                        => ~\E i \in 1..Len(Teachers) : SameTeacher(Teachers', i, new) ]_vars

\* both sessions listed the rows before either appended: two rows for N. Roy
C13_Witness ==
    /\ run.button = "add_teacher" /\ run.outcome = "teacher_added"
    /\ \E i, j \in (Len(TeachersInit) + 1)..Len(Teachers) :
          /\ i < j
          /\ Teachers[i].school = Teachers[j].school
          /\ Teachers[i].name = "N. Roy" /\ Teachers[j].name = "N. Roy"
    /\ \A s \in Sessions : calls[s].pc = "idle"

\* C14: a run appends at most one Observations row and only when a submit
\* button was pressed; a submit whose save succeeds appends exactly the row
\* of the submitted data, also when the sheet already holds a row with the
\* same data (no idempotency key), and a submit whose save fails appends
\* nothing in that run (no retry).
C14_OneAppendPerSubmit ==
    [][ /\ Observations' # Observations
           => /\ run'.button = "submit" /\ run'.outcome = "saved"
              /\ Len(Observations') = Len(Observations) + 1
        /\ run'.outcome = "saved"
           => \E timestamp \in Timestamps :
                 Observations' = Append(Observations,
                                    observation_row(submit_data(run'.submitted), timestamp))
        /\ run'.outcome = "save_failed"
           => /\ run'.button = "submit"
              /\ Observations' = Observations ]_vars

\* the data of the earlier row was submitted again: two rows that only
\* differ in the timestamp
C14_Witness ==
    /\ run.button = "submit" /\ run.outcome = "saved"
    /\ Len(Observations) = 2
    /\ SameData(Observations[1], Observations[2])
    /\ Observations[1].timestamp # Observations[2].timestamp

\* the entities the run of a page stores before it handles its submit button
StoredBySubmitRun(page) ==
    IF page = 3 THEN {"observations", "media"} ELSE {"community"}

\* C15: when save_observation returns False (the sheet is not obtained or
\* append_row fails) no row is appended and submit_form leaves the session
\* as it was called: the page is the page of the submit button, no entity
\* is removed, the entities collected on the earlier pages are unchanged
\* and the ones of this page hold the values just entered.
C15_FailedSavePreserves ==
    [][ run'.outcome = "save_failed"
        => /\ Observations' = Observations
           /\ session_state' = run'.submitted
           /\ session_state'.page = session_state.page
           /\ session_state'.page \in {3, 5}
           /\ DOMAIN session_state \subseteq DOMAIN session_state'
           /\ \A k \in (Entities \cup {"visit_type"}) \ StoredBySubmitRun(session_state.page) :
                 EntityOf(session_state', k) = EntityOf(session_state, k)
           /\ StoredBySubmitRun(session_state.page) \subseteq DOMAIN session_state'
           /\ {"basic_details", "teacher_details", "observations", "media"}
                 \subseteq DOMAIN session_state' ]_vars

\* the save of a Monthly visit failed on Community
C15_Witness ==
    /\ run.section = 5 /\ run.button = "submit" /\ run.outcome = "save_failed"
    /\ session_state.page = 5
    /\ Entities \subseteq DOMAIN session_state
    /\ Observations = ObservationsInit

\* C16 as claimed: no run of a function of the store client ends with an
\* exception that leaves the function.
C16_NoFailurePropagates == run.outcome # "raised"

\* the fixed header row of each table, in streamlit_app.py and in utility.py
ExpectedHeader(function, sheet_name) ==
    CASE sheet_name = "Schools" -> <<"School Name", "Program Manager", "Added Date">>
      [] sheet_name = "Teachers" ->
            <<"School Name", "Teacher Name", "Is Trained", "Added Date">>
      [] sheet_name = "Observations" ->
            <<"Timestamp", "PM Name", "School Name", "Visit Date", "Visit Type",
              "Teacher Details", "Observations", "Infrastructure Data", "Community Data",
              IF function = "get_or_create_sheet" THEN "Media" ELSE "Media Links">>

\* C18: a run of get_or_create_sheet adds or changes no row of a worksheet
\* that existed; a worksheet it returns is the one asked for, and either it
\* existed and the store is as it was, or it was created by the run and
\* its first row is the fixed header of that table.  When the store answers
\* every call of the run, a worksheet that exists is returned, and one that
\* exists in no workbook is created and returned.
C18_GetOrCreate ==
    [][ run'.button \in {"get_or_create_sheet", "utility.get_or_create_sheet"}
        => LET name == run'.input.sheet_name
               sheet == run'.input.sheet
               trace == run'.input.trace
               answered == trace # <<>> /\ \A i \in 1..Len(trace) : trace[i].answered
           IN  /\ Len(workbooks') >= Len(workbooks)
               /\ \A w \in 1..Len(workbooks) : \A n \in DOMAIN workbooks[w] :
                     n \in DOMAIN workbooks'[w] /\ workbooks'[w][n] = workbooks[w][n]
               /\ sheet # None
                     => /\ sheet[2] = name
                        /\ sheet[1] \in 1..Len(workbooks')
                        /\ name \in DOMAIN workbooks'[sheet[1]]
                        /\ IF sheet[1] <= Len(workbooks) /\ name \in DOMAIN workbooks[sheet[1]]
                           THEN workbooks' = workbooks
                           ELSE workbooks'[sheet[1]][name] = ExpectedHeader(run'.button, name)
               /\ (/\ answered
                   /\ workbooks # <<>>
                   /\ \A w \in 1..Len(workbooks) : name \in DOMAIN workbooks[w])
                     => sheet # None /\ workbooks' = workbooks
               /\ (answered /\ \A w \in 1..Len(workbooks) : name \notin DOMAIN workbooks[w])
                     => /\ sheet # None
                        /\ workbooks'[sheet[1]][name] = ExpectedHeader(run'.button, name) ]_vars

\* the Teachers worksheet was missing and the run created it
C18_Witness ==
    /\ run.button = "get_or_create_sheet" /\ run.outcome = "sheet"
    /\ run.input.sheet_name = "Teachers"
    /\ run.input.trace[Len(run.input.trace)] = Call("insert_row", TRUE, TRUE)
    /\ workbooks[run.input.sheet[1]]["Teachers"]
          = <<"School Name", "Teacher Name", "Is Trained", "Added Date">>
    /\ "Schools" \in DOMAIN workbooks[run.input.sheet[1]]
    /\ workbooks[run.input.sheet[1]]["Schools"]
          = <<"School Name", "Program Manager", "Added Date">>

\* C20: save_observation called with data that has no basic_details returns
\* False and appends no row.
C20_NoContextNoRow ==
    [][ (/\ run'.button = "save_observation"
         /\ "basic_details" \notin DOMAIN run'.input.data)
        => /\ run'.outcome = "false"
           /\ Observations' = Observations ]_vars

\* the sheet and the append were fine, only basic_details was missing
C20_Witness ==
    /\ run.button = "save_observation" /\ run.outcome = "false"
    /\ run.input.ok
    /\ DOMAIN run.input.data = {"teacher_details", "observations"}
    /\ Observations = ObservationsInit

\* C17: when the read of the program managers fails BasicDetails offers
\* only "No program managers found" and "No schools found", when the read
\* of the schools fails it offers only "No schools found", and "Next" then
\* leaves the page at 1 and basic_details as it was; when the read of the
\* teachers fails TeacherSelection has nothing to select and "Next" leaves
\* the page at 2.  No such run raises.
C17_FailedLookupsGiveNoData ==
    [][ /\ (run'.section = 1 /\ run'.button = "next"
              /\ (~run'.input.pmOk \/ (~run'.input.schoolsOk /\ run'.input.pm_name # "")))
           => /\ ~run'.input.pmOk => run'.input.pm_name = "No program managers found"
              /\ run'.input.school_name = "No schools found"
              /\ run'.outcome = "invalid"
              /\ session_state'.page = 1
              /\ EntityOf(session_state', "basic_details")
                    = EntityOf(session_state, "basic_details")
        /\ (run'.section = 2 /\ run'.button = "next" /\ ~run'.input.teachersOk)
           => /\ run'.input.trained_teachers = <<>>
              /\ run'.input.untrained_teachers = <<>>
              /\ run'.outcome = "invalid"
              /\ session_state'.page = 2
              /\ EntityOf(session_state', "teacher_details")
                    = EntityOf(session_state, "teacher_details") ]_vars

\* the managers were read, the read of Asha's schools failed
C17_Witness ==
    /\ run.section = 1 /\ run.button = "next" /\ run.outcome = "invalid"
    /\ run.input.pmOk /\ ~run.input.schoolsOk
    /\ run.input.pm_name = "Asha"
    /\ run.input.school_name = "No schools found"
    /\ session_state.page = 1

\* the members of a JSON object whose keys are the teachers, in their order
RECURSIVE TeacherMembers(_, _)
TeacherMembers(teachers, observations) ==
    IF teachers = <<>> THEN ""
    ELSE LET one == "\"" \o Head(teachers) \o "\": "
                        \o JsonDumps(DictGet(observations, Head(teachers)))
         IN  IF Len(teachers) = 1 THEN one
             ELSE one \o ", " \o TeacherMembers(Tail(teachers), observations)

\* C19: "Next" on TeacherSelection stores the two lists in the order in
\* which the teachers were selected, and the Observations field of an
\* appended row is the JSON object whose members are, in this order, the
\* trained teachers of the submitted teacher_details and then the untrained
\* ones, each group in the order of its list.
C19_ObservationsOrder ==
    [][ /\ (run'.section = 2 /\ run'.outcome = "advanced")
           => /\ Strings(DictGet(session_state'.teacher_details, "trained_teachers"))
                    = run'.input.trained_teachers
              /\ Strings(DictGet(session_state'.teacher_details, "untrained_teachers"))
                    = run'.input.untrained_teachers
        /\ run'.outcome = "saved"
           => LET details == run'.submitted.teacher_details
                  order == Strings(DictGet(details, "trained_teachers"))
                              \o Strings(DictGet(details, "untrained_teachers"))
              IN  /\ DictKeys(run'.submitted.observations) = order
                  /\ Observations'[Len(Observations')].observations
                        = "{" \o TeacherMembers(order, run'.submitted.observations) \o "}" ]_vars

\* K. Das was selected before R. Singh (the sheet lists them the other way
\* round) and M. Rao is untrained
C19_Witness ==
    /\ run.outcome = "saved"
    /\ Strings(DictGet(run.submitted.teacher_details, "trained_teachers"))
          = <<"K. Das", "R. Singh">>
    /\ Strings(DictGet(run.submitted.teacher_details, "untrained_teachers")) = <<"M. Rao">>
    /\ LastRow.teacher_details
          = "{\"trained_teachers\": [\"K. Das\", \"R. Singh\"], "
               \o "\"untrained_teachers\": [\"M. Rao\"]}"
    /\ LastRow.observations
          = "{" \o TeacherMembers(<<"K. Das", "R. Singh", "M. Rao">>,
                                  run.submitted.observations) \o "}"

\* C21: handle_media_upload returns one entry for every file whose upload
\* succeeded and none for a file whose upload failed, whatever failed
\* before it: the entries are the successful photos in the order given, then
\* the successful videos in the order given, each with its type, name and id.
C21_PartialSuccess ==
    [][ run'.button = "handle_media_upload"
        => LET photos == run'.input.photos
               videos == run'.input.videos
               failed == run'.input.failed
               files == photos \o videos
               entries == run'.input.uploaded_files.v
               Succeeded(i) == files[i] \notin failed
               \* the successful files up to the i-th
               Upto(i) == {j \in 1..i : Succeeded(j)}
           IN  /\ Len(entries) = Cardinality(Upto(Len(files)))
               /\ \A i \in 1..Len(files) :
                     Succeeded(i)
                        => LET e == entries[Cardinality(Upto(i))]
                           IN  /\ DictGet(e, "name").v = files[i]
                               /\ DictGet(e, "type").v
                                     = (IF i <= Len(photos) THEN "photo" ELSE "video")
                               /\ DictGet(e, "file_id").v # "" ]_vars

\* the first photo failed, the second photo and the video were uploaded
C21_Witness ==
    /\ run.button = "handle_media_upload"
    /\ run.input.photos = <<"a.jpg", "c.png">> /\ run.input.videos = <<"b.mp4">>
    /\ run.input.failed = {"a.jpg"}
    /\ Len(run.input.uploaded_files.v) = 2
    /\ DictGet(run.input.uploaded_files.v[1], "name").v = "c.png"
    /\ DictGet(run.input.uploaded_files.v[2], "name").v = "b.mp4"

\* C22 as claimed: in a Monthly session, when "Previous" on Community has
\* set the page to 4, the run that renders Infrastructure again leaves the
\* infrastructure entity with the values entered before (here: values other
\* than the first options); they are not replaced.
C22_InfrastructureKept ==
    [][ (/\ run.section = 5 /\ run.button = "previous" /\ run.outcome = "retreated"
         /\ session_state.visit_type = "Monthly"
         /\ Has(session_state, "infrastructure")
         /\ session_state.infrastructure # infrastructure_data(1)
         /\ run'.section = 4)
        => /\ Has(session_state', "infrastructure")
           /\ session_state'.infrastructure = session_state.infrastructure ]_vars

\* C23: the Observations table only grows by appends.  A run that changes
\* it is a run whose submit button was pressed, and after any run every row
\* that was in the table is still there, at its place and with its cells
\* as they were.
C23_RowsAppendOnly ==
    [][ /\ Len(Observations') >= Len(Observations)
        /\ \A n \in 1..Len(Observations) : Observations'[n] = Observations[n]
        /\ Observations' # Observations
              => /\ run'.button = "submit"
                 /\ run'.section \in {3, 5}
                 /\ DOMAIN run'.submitted # {} ]_vars

\* a visit was submitted and the row of the earlier visit is as it was
C23_Witness ==
    /\ run.button = "submit" /\ run.outcome = "saved"
    /\ Len(Observations) > Len(ObservationsInit)
    /\ Observations[1] = EarlierRow
    /\ LastRow.timestamp # EarlierRow.timestamp
    /\ LastRow.school_name = run.submitted.basic_details.school_name

\* the teachers of a teacher_details as a set
TeacherSet(teacher_details) == Range(all_teachers(teacher_details))

\* C25: on the pages after ClassroomObservation (4 and 5) the keys of the
\* stored observations are exactly the teachers of the stored
\* teacher_details, and so they are in every session that is submitted: the
\* Teacher Details and the Observations of an appended row are the JSON of
\* that selection and of observations with exactly its teachers as keys.
C25_ObservationsMatchSelection ==
    /\ [](session_state.page \in {4, 5}
            => /\ Has(session_state, "teacher_details") /\ Has(session_state, "observations")
               /\ Range(DictKeys(session_state.observations))
                     = TeacherSet(session_state.teacher_details)
               /\ Len(DictKeys(session_state.observations))
                     = Cardinality(TeacherSet(session_state.teacher_details)))
    /\ [][ run'.outcome = "saved"
           => LET sub == run'.submitted
                  row == Observations'[Len(Observations')]
              IN  /\ Range(DictKeys(sub.observations)) = TeacherSet(sub.teacher_details)
                  /\ Len(DictKeys(sub.observations))
                        = Cardinality(TeacherSet(sub.teacher_details))
                  /\ row.teacher_details = JsonDumps(sub.teacher_details)
                  /\ row.observations = JsonDumps(sub.observations) ]_vars

\* a Monthly visit was taken to Community, then back to BasicDetails and
\* forward again as a Daily visit (the infrastructure and the community of
\* the first pass are still in the session) with M. Rao alone selected
C25_Witness ==
    /\ run.section = 3 /\ run.outcome = "saved"
    /\ {"infrastructure", "community"} \subseteq DOMAIN run.submitted
    /\ all_teachers(run.submitted.teacher_details) = <<"M. Rao">>
    /\ DictKeys(run.submitted.observations) = <<"M. Rao">>
    /\ LastRow.teacher_details
          = "{\"trained_teachers\": [], \"untrained_teachers\": [\"M. Rao\"]}"

\* C26: on the pages 2 to 5 the session holds basic_details and its
\* visit_type equals the visit_type of the session, and so it does in every
\* session submit_form is called with.
C26_VisitTypeCopiesAgree ==
    /\ [](session_state.page \in 2..5
            => /\ Has(session_state, "basic_details")
               /\ session_state.visit_type = session_state.basic_details.visit_type)
    /\ [][ run'.outcome \in {"saved", "save_failed"}
           => run'.submitted.visit_type = run'.submitted.basic_details.visit_type ]_vars

\* the visit was Monthly up to Community and is Daily now, in both copies
C26_Witness ==
    /\ session_state.page = 3
    /\ run.section = 2 /\ run.outcome = "advanced"
    /\ Has(session_state, "community")
    /\ session_state.visit_type = "Daily"
    /\ session_state.basic_details.visit_type = "Daily"

\* C27 as claimed: the files a render of ClassroomObservation uploaded for a
\* teacher are referenced in the Media field of the row that the submission
\* following that render appends.
C27_UploadsInRecord ==
    [][ (/\ run.section = 3 /\ run.outcome = "rendered"
         /\ run'.section = 3 /\ run'.outcome = "saved")
        => LET uploaded == run.input.media_data
               media == run'.submitted.media
               row == Observations'[Len(Observations')]
           IN  /\ row.media = JsonDumps(media)
               /\ \A i \in 1..Len(uploaded.v) :
                     LET teacher == uploaded.v[i][1]
                         files == uploaded.v[i][2].v
                     IN  \A n \in 1..Len(files) :
                           /\ teacher \in Range(DictKeys(media))
                           /\ files[n] \in Range(DictGet(media, teacher).v) ]_vars

\* C28 as claimed: a run of get_or_create_sheet leaves one more workbook
\* named "School_Observations" only when there was none, and a worksheet
\* that the run added (with or without its header row) has a name that no
\* worksheet of the store had.
C28_CreatesOnlyWhenAbsent ==
    [][ run'.button \in {"get_or_create_sheet", "utility.get_or_create_sheet"}
        => LET name == run'.input.sheet_name
           IN  /\ Len(workbooks') > Len(workbooks) => workbooks = <<>>
               /\ (\E w \in 1..Len(workbooks') :
                      /\ name \in DOMAIN workbooks'[w]
                      /\ w \in 1..Len(workbooks) => name \notin DOMAIN workbooks[w])
                     => \A w \in 1..Len(workbooks) : name \notin DOMAIN workbooks[w] ]_vars

\* no two rows of the same school with names equal ignoring case
UniqueTeachers(rows) ==
    \A i, j \in 1..Len(rows) : i # j => ~SameTeacher(rows, i, j)

\* C29: with one session calling add_new_teacher, the Teachers table (which
\* starts without duplicates) never holds two rows of the same school whose
\* names are equal ignoring case; a call that succeeds appends exactly its
\* row, and a call that is rejected or fails leaves the table as it was.
C29_SingleWriterUnique ==
    /\ [] UniqueTeachers(Teachers)
    /\ [][ /\ run'.outcome = "teacher_added"
              => /\ Len(Teachers') = Len(Teachers) + 1
                 /\ \A n \in 1..Len(Teachers) : Teachers'[n] = Teachers[n]
                 /\ Teachers'[Len(Teachers')].school = run'.input.school_name
                 /\ Teachers'[Len(Teachers')].name = run'.input.new_teacher_name
           /\ run'.outcome # "teacher_added" => Teachers' = Teachers ]_vars

\* N. Roy was added, and "n. roy" was rejected afterwards
C29_Witness ==
    /\ run.button = "add_teacher" /\ run.outcome = "teacher_rejected"
    /\ run.input.new_teacher_name = "n. roy"
    /\ Len(Teachers) = Len(TeachersInit) + 1
    /\ Teachers[Len(Teachers)].name = "N. Roy"
    /\ UniqueTeachers(TeachersInit)

\* the names of the rows of a school in the Teachers table
TeachersOf(rows, school_name) ==
    {rows[i].name : i \in {n \in 1..Len(rows) : rows[n].school = school_name}}

\* C30: on ClassroomObservation and the pages after it, and in every
\* session that is submitted, the teachers of the stored teacher_details
\* are teachers of the school of the stored basic_details; the appended row
\* names that school and that selection.
C30_SelectionOfStoredSchool ==
    /\ [](session_state.page \in 3..5
            => /\ Has(session_state, "basic_details") /\ Has(session_state, "teacher_details")
               /\ TeacherSet(session_state.teacher_details)
                     \subseteq TeachersOf(Teachers, session_state.basic_details.school_name))
    /\ [][ run'.outcome \in {"saved", "save_failed"}
           => TeacherSet(run'.submitted.teacher_details)
                 \subseteq TeachersOf(Teachers, run'.submitted.basic_details.school_name) ]_vars
    /\ [][ run'.outcome = "saved"
           => LET row == Observations'[Len(Observations')]
              IN  /\ row.school_name = run'.submitted.basic_details.school_name
                  /\ row.teacher_details = JsonDumps(run'.submitted.teacher_details) ]_vars

\* a Monthly visit was taken past Infrastructure, then back to BasicDetails
\* and forward again as a Daily visit to Hilltop, submitted with K. Das
C30_Witness ==
    /\ run.section = 3 /\ run.outcome = "saved"
    /\ Has(run.submitted, "infrastructure")
    /\ run.submitted.basic_details.school_name = "Hilltop"
    /\ all_teachers(run.submitted.teacher_details) = <<"K. Das">>
    /\ LastRow.school_name = "Hilltop"
    /\ LastRow.teacher_details
          = "{\"trained_teachers\": [\"K. Das\"], \"untrained_teachers\": []}"

\* the school of the stored basic_details has a row in the Teachers table
SchoolHasTeacher ==
    Has(session_state, "basic_details")
       => TeachersOf(Teachers, session_state.basic_details.school_name) # {}

\* C31: the wizard has no dead end. Before the row of the visit is saved,
\* on whatever page the session is and whatever it holds, a forward run can
\* move the wizard on as long as the school of the visit has a teacher; a
\* forward run saves the row or leaves the session on a later page, so at
\* most four forward runs come before the one that saves the row; and the
\* run that saved the row left the page at 1. A user who keeps making
\* forward runs (WF_vars(Forward)) therefore gets to the submission.
C31_NoDeadEnd ==
    /\ [](Running /\ SchoolHasTeacher => ENABLED <<Forward>>_vars)
    /\ [][ForwardRun => \/ run'.outcome = "saved"
                         \/ session_state'.page > session_state.page]_vars
    /\ [](run.outcome = "saved" => session_state.page = 1)

\* Hilltop was given a teacher on TeacherSelection, and the forward run on
\* Community saved the row of a Monthly visit to it
C31_Witness ==
    /\ run.section = 5 /\ run.button = "submit" /\ run.outcome = "saved"
    /\ session_state.page = 1
    /\ Len(Observations) = Len(ObservationsInit) + MaxRows
    /\ LastRow.visit_type = "Monthly"
    /\ LastRow.school_name = "Hilltop"
    /\ TeachersOf(Teachers, "Hilltop") # {}
    /\ TeachersOf(TeachersOfOne, "Hilltop") = {}

====
